---- MODULE Spec2Model ----
(***************************************************************************)
(* Model of AssignmentCode.py: the AppConfig singleton, the pricing and    *)
(* payment strategies, the authenticate / log_operation decorators and the *)
(* CabBookingSystem orchestrator.                                          *)
(*                                                                         *)
(* Python values are tagged records (field kind), so that None, booleans,  *)
(* objects and dicts can be compared and tested for truthiness.  Floats    *)
(* are modelled by integers: the distances drawn are whole numbers, for    *)
(* which d * 10 and d * 25 are exact in binary floating point.             *)
(* What a call prints, and which strategy methods it invokes, is recorded  *)
(* in order in the call's trace.  The timestamp of the "Booking started"   *)
(* notice (datetime.now()) is left out of the notice.                      *)
(***************************************************************************)
EXTENDS Integers, Sequences, FiniteSets

VARIABLES AppConfig_instance, heap, systems, ret

vars == <<AppConfig_instance, heap, systems, ret>>

---------------------------------------------------------------------------
(* Bounds and input sets *)

MaxSystems == 1

MaxDist == 1

\* distance_km / amount arguments: one negative value, zero, small positives
\* and the distances of the first two demonstration bookings
Distances == ((0 - 1)..MaxDist) \cup {5, 15}

Pickups == {"MG Road", "Airport"}

Destinations == {"Koramangala"}

\* (user_name, is_authenticated) pairs the driver constructs orchestrators with
Sessions == {<<"John", TRUE>>, <<"Jane", FALSE>>}

PricingClasses == {"NormalPricing", "SurgePricing"}

PaymentClasses == {"UPIPayment", "CardPayment", "WalletPayment"}

---------------------------------------------------------------------------
(* Python values *)

None == [kind |-> "None"]

Bool(b) == [kind |-> "bool", val |-> b]

Obj(c) == [kind |-> "object", class |-> c]

BookingDict(pickup, destination, fare) ==
    [kind |-> "dict", pickup |-> pickup, destination |-> destination, fare |-> fare]

\* Python truth value: None is false, a bool is itself, a dict is true iff it
\* has a key, an instance of a class without __bool__/__len__ is true.
Truthy(v) ==
    CASE v.kind = "None" -> FALSE
      [] v.kind = "bool" -> v.val
      [] v.kind = "dict" -> Cardinality(DOMAIN v \ {"kind"}) > 0
      [] OTHER -> TRUE

\* format spec ".2f" applied to a whole number: sign, integer digits, "00"
Format2f(x) == [neg |-> x < 0, whole |-> IF x < 0 THEN 0 - x ELSE x, frac |-> 0]

---------------------------------------------------------------------------
(* Trace events: notices printed and strategy methods invoked *)

PrintAuthUser(user) == [kind |-> "print", tag |-> "[AUTH] User", user |-> user]

PrintAuthFailed == [kind |-> "print", tag |-> "[AUTH] Failed"]

PrintAuthSuccess == [kind |-> "print", tag |-> "[AUTH] Success"]

PrintLogStart == [kind |-> "print", tag |-> "[LOG] Booking started"]

PrintLogEnd(status) == [kind |-> "print", tag |-> "[LOG] Booking", status |-> status]

PrintError == [kind |-> "print", tag |-> "[ERROR]"]

PrintRide(pickup, destination, distance_km) ==
    [kind |-> "print", tag |-> "Ride", pickup |-> pickup,
     destination |-> destination, distance_km |-> distance_km]

PrintFare(symbol, fare) ==
    [kind |-> "print", tag |-> "Fare", symbol |-> symbol, amount |-> Format2f(fare)]

PrintPayment(channel, symbol, config, amount) ==
    [kind |-> "print", tag |-> "payment", channel |-> channel, symbol |-> symbol,
     config |-> config, amount |-> Format2f(amount)]

CallEvent(method, class, arg) ==
    [kind |-> "call", tag |-> method, class |-> class, arg |-> arg]

---------------------------------------------------------------------------
(* AppConfig *)

\* The process-wide state a call can read and write: the class attribute
\* AppConfig._instance and the AppConfig objects allocated so far.
Globals(instance, objects) == [instance |-> instance, heap |-> objects]

NoInstance == 0

\* Mutant: __new__ without the "is None" test, a new object at every access
AppConfig_new_always(g) ==
    LET id == Len(g.heap) + 1
    IN  [g |-> Globals(id, Append(g.heap,
                 [app_name |-> "MiniCab", currency_symbol |-> "₹"])),
         result |-> id]

\* AppConfig.__new__: allocate and initialise on first use, then return _instance
AppConfig_new(g) ==
    IF g.instance = NoInstance
    THEN LET id == Len(g.heap) + 1
         IN  [g |-> Globals(id, Append(g.heap,
                      [app_name |-> "MiniCab", currency_symbol |-> "₹"])),
              result |-> id]
    ELSE [g |-> g, result |-> g.instance]

---------------------------------------------------------------------------
(* Pricing strategies *)

NormalPricing_calculate_fare(distance_km) == distance_km * 10

\* Mutant: the surge rate added instead of multiplied
SurgePricing_calculate_fare_added(distance_km) == distance_km + 25

SurgePricing_calculate_fare(distance_km) == distance_km * 25

calculate_fare(strategy, distance_km) ==
    CASE strategy.class = "NormalPricing" -> NormalPricing_calculate_fare(distance_km)
      [] strategy.class = "SurgePricing" -> SurgePricing_calculate_fare(distance_km)

---------------------------------------------------------------------------
(* Payment methods *)

UPIPayment_process_payment(amount, g) ==
    LET c == AppConfig_new(g)
    IN  [g |-> c.g, result |-> Bool(TRUE),
         trace |-> <<PrintPayment("UPI", c.g.heap[c.result].currency_symbol,
                                  c.result, amount)>>]

CardPayment_process_payment(amount, g) ==
    LET c == AppConfig_new(g)
    IN  [g |-> c.g, result |-> Bool(TRUE),
         trace |-> <<PrintPayment("Card", c.g.heap[c.result].currency_symbol,
                                  c.result, amount)>>]

\* Mutant: a wallet that declines amounts that are not positive
WalletPayment_process_payment_declining(amount, g) ==
    LET c == AppConfig_new(g)
    IN  [g |-> c.g, result |-> Bool(amount > 0),
         trace |-> <<PrintPayment("Wallet", c.g.heap[c.result].currency_symbol,
                                  c.result, amount)>>]

WalletPayment_process_payment(amount, g) ==
    LET c == AppConfig_new(g)
    IN  [g |-> c.g, result |-> Bool(TRUE),
         trace |-> <<PrintPayment("Wallet", c.g.heap[c.result].currency_symbol,
                                  c.result, amount)>>]

process_payment(method, amount, g) ==
    LET r == CASE method.class = "UPIPayment" -> UPIPayment_process_payment(amount, g)
               [] method.class = "CardPayment" -> CardPayment_process_payment(amount, g)
               [] method.class = "WalletPayment" -> WalletPayment_process_payment(amount, g)
    IN  [r EXCEPT !.trace = <<CallEvent("process_payment", method.class, amount)>> \o @]

---------------------------------------------------------------------------
(* CabBookingSystem *)

\* __init__: the session, both policies unset, the shared configuration
CabBookingSystem_init(user_name, is_authenticated, g) ==
    LET c == AppConfig_new(g)
    IN  [g |-> c.g,
         self |-> [user_name |-> user_name,
                   is_authenticated |-> is_authenticated,
                   pricing_strategy |-> None,
                   payment_method |-> None,
                   config |-> c.result]]

\* Mutant: a setter that keeps a policy that is already set
set_pricing_once(self, strategy) ==
    IF Truthy(self.pricing_strategy) THEN self
    ELSE [self EXCEPT !.pricing_strategy = strategy]

set_pricing(self, strategy) == [self EXCEPT !.pricing_strategy = strategy]

set_payment(self, method) == [self EXCEPT !.payment_method = method]

\* Mutant: pickup and destination exchanged in the booking record
book_ride_body_swapped(self, pickup, destination, distance_km, g) ==
    IF ~Truthy(self.pricing_strategy) \/ ~Truthy(self.payment_method)
    THEN [self |-> self, g |-> g, result |-> None, trace |-> <<PrintError>>]
    ELSE LET fare == calculate_fare(self.pricing_strategy, distance_km)
             pay == process_payment(self.payment_method, fare, g)
         IN  [self |-> self,
              g |-> pay.g,
              result |-> IF Truthy(pay.result)
                         THEN BookingDict(destination, pickup, fare)
                         ELSE None,
              trace |-> <<CallEvent("calculate_fare", self.pricing_strategy.class,
                                    distance_km),
                          PrintRide(pickup, destination, distance_km),
                          PrintFare(g.heap[self.config].currency_symbol, fare)>>
                        \o pay.trace]

\* Mutant: the missing-policy branch returns without its error notice
book_ride_body_silent(self, pickup, destination, distance_km, g) ==
    IF ~Truthy(self.pricing_strategy) \/ ~Truthy(self.payment_method)
    THEN [self |-> self, g |-> g, result |-> None, trace |-> <<>>]
    ELSE LET fare == calculate_fare(self.pricing_strategy, distance_km)
             pay == process_payment(self.payment_method, fare, g)
         IN  [self |-> self,
              g |-> pay.g,
              result |-> IF Truthy(pay.result)
                         THEN BookingDict(pickup, destination, fare)
                         ELSE None,
              trace |-> <<CallEvent("calculate_fare", self.pricing_strategy.class,
                                    distance_km),
                          PrintRide(pickup, destination, distance_km),
                          PrintFare(g.heap[self.config].currency_symbol, fare)>>
                        \o pay.trace]

\* Mutant: a paid booking consumes the payment method (resets it to None)
book_ride_body_consuming(self, pickup, destination, distance_km, g) ==
    IF ~Truthy(self.pricing_strategy) \/ ~Truthy(self.payment_method)
    THEN [self |-> self, g |-> g, result |-> None, trace |-> <<PrintError>>]
    ELSE LET fare == calculate_fare(self.pricing_strategy, distance_km)
             pay == process_payment(self.payment_method, fare, g)
         IN  [self |-> [self EXCEPT !.payment_method = None],
              g |-> pay.g,
              result |-> IF Truthy(pay.result)
                         THEN BookingDict(pickup, destination, fare)
                         ELSE None,
              trace |-> <<CallEvent("calculate_fare", self.pricing_strategy.class,
                                    distance_km),
                          PrintRide(pickup, destination, distance_km),
                          PrintFare(g.heap[self.config].currency_symbol, fare)>>
                        \o pay.trace]

\* The undecorated body of book_ride
book_ride_body(self, pickup, destination, distance_km, g) ==
    IF ~Truthy(self.pricing_strategy) \/ ~Truthy(self.payment_method)
    THEN [self |-> self, g |-> g, result |-> None, trace |-> <<PrintError>>]
    ELSE LET fare == calculate_fare(self.pricing_strategy, distance_km)
             pay == process_payment(self.payment_method, fare, g)
         IN  [self |-> self,
              g |-> pay.g,
              result |-> IF Truthy(pay.result)
                         THEN BookingDict(pickup, destination, fare)
                         ELSE None,
              trace |-> <<CallEvent("calculate_fare", self.pricing_strategy.class,
                                    distance_km),
                          PrintRide(pickup, destination, distance_km),
                          PrintFare(g.heap[self.config].currency_symbol, fare)>>
                        \o pay.trace]

\* Mutant: a failed inner call returns before the closing notice
log_operation_wrapper_unclosed(self, pickup, destination, distance_km, g) ==
    LET r == book_ride_body(self, pickup, destination, distance_km, g)
    IN  IF r.result = None
        THEN [r EXCEPT !.trace = <<PrintLogStart>> \o @]
        ELSE [r EXCEPT !.trace = <<PrintLogStart>> \o @ \o <<PrintLogEnd("Success")>>]

\* Mutant: the status taken from the truth value of the fare
log_operation_wrapper_by_fare(self, pickup, destination, distance_km, g) ==
    LET r == book_ride_body(self, pickup, destination, distance_km, g)
        status == IF Truthy(r.result) /\ r.result.fare # 0 THEN "Success" ELSE "Failed"
    IN  [r EXCEPT !.trace = <<PrintLogStart>> \o @ \o <<PrintLogEnd(status)>>]

\* log_operation's wrapper around the body
log_operation_wrapper(self, pickup, destination, distance_km, g) ==
    LET r == book_ride_body(self, pickup, destination, distance_km, g)
        status == IF Truthy(r.result) THEN "Success" ELSE "Failed"
    IN  [r EXCEPT !.trace = <<PrintLogStart>> \o @ \o <<PrintLogEnd(status)>>]

\* Mutant: the failure branch prints its notice but does not return
authenticate_wrapper_ungated(self, pickup, destination, distance_km, g) ==
    LET r == log_operation_wrapper(self, pickup, destination, distance_km, g)
        notice == IF ~self.is_authenticated THEN PrintAuthFailed ELSE PrintAuthSuccess
    IN  [r EXCEPT !.trace = <<PrintAuthUser(self.user_name), notice>> \o @]

\* authenticate's wrapper around the logged body
authenticate_wrapper(self, pickup, destination, distance_km, g) ==
    IF ~self.is_authenticated
    THEN [self |-> self, g |-> g, result |-> None,
          trace |-> <<PrintAuthUser(self.user_name), PrintAuthFailed>>]
    ELSE LET r == log_operation_wrapper(self, pickup, destination, distance_km, g)
         IN  [r EXCEPT !.trace = <<PrintAuthUser(self.user_name), PrintAuthSuccess>> \o @]

\* book_ride as callers see it: @authenticate outermost, @log_operation inside
book_ride(self, pickup, destination, distance_km, g) ==
    authenticate_wrapper(self, pickup, destination, distance_km, g)

---------------------------------------------------------------------------
(* State machine: the calls a client of the module can make *)

\* The last call: which operation, on which orchestrator (0: none), with which
\* arguments, what it returned and what it printed / invoked.  receiver is the
\* orchestrator as it was when the call was made.  switched says, for a setter,
\* that it replaced a policy that was set by a different one, and for a
\* booking, that the call just before it was such a setter on the same
\* orchestrator.
Return(op, sys, receiver, args, result, trace, switched) ==
    [op |-> op, sys |-> sys, receiver |-> receiver, args |-> args,
     result |-> result, trace |-> trace, switched |-> switched]

Init ==
    /\ AppConfig_instance = NoInstance
    /\ heap = <<>>
    /\ systems = <<>>
    /\ ret = Return("start", 0, None, <<>>, None, <<>>, FALSE)

\* AppConfig()
GetConfig ==
    LET c == AppConfig_new(Globals(AppConfig_instance, heap))
    IN  /\ AppConfig_instance' = c.g.instance
        /\ heap' = c.g.heap
        /\ ret' = Return("AppConfig", 0, None, <<>>, Obj(c.result), <<>>, FALSE)
        /\ UNCHANGED systems

\* CabBookingSystem(user_name, is_authenticated)
Construct(user_name, is_authenticated) ==
    /\ Len(systems) < MaxSystems
    /\ LET c == CabBookingSystem_init(user_name, is_authenticated,
                                      Globals(AppConfig_instance, heap))
       IN  /\ AppConfig_instance' = c.g.instance
           /\ heap' = c.g.heap
           /\ systems' = Append(systems, c.self)
           /\ ret' = Return("__init__", Len(systems) + 1, None,
                            <<user_name, is_authenticated>>, None, <<>>, FALSE)

SetPricing(s, class) ==
    /\ systems' = [systems EXCEPT ![s] = set_pricing(@, Obj(class))]
    /\ ret' = Return("set_pricing", s, systems[s], <<class>>, None, <<>>,
                     /\ Truthy(systems[s].pricing_strategy)
                     /\ systems[s].pricing_strategy # Obj(class))
    /\ UNCHANGED <<AppConfig_instance, heap>>

SetPayment(s, class) ==
    /\ systems' = [systems EXCEPT ![s] = set_payment(@, Obj(class))]
    /\ ret' = Return("set_payment", s, systems[s], <<class>>, None, <<>>,
                     /\ Truthy(systems[s].payment_method)
                     /\ systems[s].payment_method # Obj(class))
    /\ UNCHANGED <<AppConfig_instance, heap>>

BookRide(s, pickup, destination, distance_km) ==
    LET r == book_ride(systems[s], pickup, destination, distance_km,
                       Globals(AppConfig_instance, heap))
    IN  /\ AppConfig_instance' = r.g.instance
        /\ heap' = r.g.heap
        /\ systems' = [systems EXCEPT ![s] = r.self]
        /\ ret' = Return("book_ride", s, systems[s],
                         <<pickup, destination, distance_km>>, r.result, r.trace,
                         /\ ret.op \in {"set_pricing", "set_payment"}
                         /\ ret.sys = s
                         /\ ret.switched)

\* strategy.calculate_fare(distance_km), called on a strategy object directly
CalculateFare(class, distance_km) ==
    /\ ret' = Return("calculate_fare", 0, None, <<class, distance_km>>,
                     [kind |-> "float", val |-> calculate_fare(Obj(class), distance_km)],
                     <<>>, FALSE)
    /\ UNCHANGED <<AppConfig_instance, heap, systems>>

\* method.process_payment(amount), called on a payment object directly
ProcessPayment(class, amount) ==
    LET r == process_payment(Obj(class), amount, Globals(AppConfig_instance, heap))
    IN  /\ AppConfig_instance' = r.g.instance
        /\ heap' = r.g.heap
        /\ ret' = Return("process_payment", 0, None, <<class, amount>>, r.result,
                         r.trace, FALSE)
        /\ UNCHANGED systems

Next ==
    \/ GetConfig
    \/ \E u \in Sessions : Construct(u[1], u[2])
    \/ \E s \in 1..Len(systems), c \in PricingClasses : SetPricing(s, c)
    \/ \E s \in 1..Len(systems), c \in PaymentClasses : SetPayment(s, c)
    \/ \E s \in 1..Len(systems), p \in Pickups, d \in Destinations, km \in Distances :
          BookRide(s, p, d, km)
    \/ \E c \in PricingClasses, km \in Distances : CalculateFare(c, km)
    \/ \E c \in PaymentClasses, a \in Distances : ProcessPayment(c, a)

Spec == Init /\ [][Next]_vars

---------------------------------------------------------------------------
(* Observations on the last call *)

IsBooking == ret.op = "book_ride"

\* Indices of the events of the last call's trace that carry the given tag
Positions(tag) == {i \in DOMAIN ret.trace : ret.trace[i].tag = tag}

PoliciesSet(self) == Truthy(self.pricing_strategy) /\ Truthy(self.payment_method)

Started == Positions("[LOG] Booking started") # {}

FareAndPaymentTags == {"calculate_fare", "Ride", "Fare", "process_payment", "payment"}

---------------------------------------------------------------------------
(* C1: a book_ride call on an orchestrator that is authenticated and has   *)
(* both policies set returns a non-null result whose pickup and            *)
(* destination are the arguments and whose fare is the active pricing      *)
(* policy's calculate_fare(distance_km); Normal at distance 5 gives 50.    *)
C1_BookingReturnsFare ==
    (IsBooking /\ ret.receiver.is_authenticated /\ PoliciesSet(ret.receiver)) =>
        /\ ret.result # None
        /\ ret.result.kind = "dict"
        /\ ret.result.pickup = ret.args[1]
        /\ ret.result.destination = ret.args[2]
        /\ ret.result.fare = calculate_fare(ret.receiver.pricing_strategy, ret.args[3])
        /\ (ret.receiver.pricing_strategy = Obj("NormalPricing") /\ ret.args[3] = 5)
              => ret.result.fare = 50

\* Scenario 1: John, Normal pricing, UPI, MG Road -> Koramangala, 5 km
C1_Witness ==
    /\ IsBooking
    /\ ret.receiver.user_name = "John"
    /\ ret.receiver.is_authenticated
    /\ ret.receiver.pricing_strategy = Obj("NormalPricing")
    /\ ret.receiver.payment_method = Obj("UPIPayment")
    /\ ret.args = <<"MG Road", "Koramangala", 5>>
    /\ ret.result = BookingDict("MG Road", "Koramangala", 50)

(* C2: a book_ride call on an unauthenticated orchestrator returns None    *)
(* whatever the policies and the distance, and emits only the              *)
(* authentication notices: no log notice, no fare computation, no payment. *)
C2_UnauthenticatedRejected ==
    (IsBooking /\ ~ret.receiver.is_authenticated) =>
        /\ ret.result = None
        /\ ret.trace # <<>>
        /\ \A i \in DOMAIN ret.trace :
              /\ ret.trace[i].kind = "print"
              /\ ret.trace[i].tag \in {"[AUTH] User", "[AUTH] Failed"}

\* Scenario 4: an unauthenticated orchestrator with both policies set
C2_Witness ==
    /\ IsBooking
    /\ ~ret.receiver.is_authenticated
    /\ PoliciesSet(ret.receiver)
    /\ ret.result = None
    /\ PrintAuthFailed = ret.trace[Len(ret.trace)]

(* C3: a book_ride call on an authenticated orchestrator with the pricing  *)
(* policy or the payment policy unset returns None, emits the error        *)
(* notice, and computes no fare and processes no payment.                  *)
C3_MissingPolicyRejected ==
    (IsBooking /\ ret.receiver.is_authenticated /\ ~PoliciesSet(ret.receiver)) =>
        /\ ret.result = None
        /\ Positions("[ERROR]") # {}
        /\ \A i \in DOMAIN ret.trace : ret.trace[i].tag \notin FareAndPaymentTags

\* One policy set, the other not
C3_Witness ==
    /\ IsBooking
    /\ ret.receiver.is_authenticated
    /\ Truthy(ret.receiver.pricing_strategy)
    /\ ~Truthy(ret.receiver.payment_method)
    /\ ret.result = None
    /\ Positions("[ERROR]") # {}

(* C4: for every non-negative distance d, Normal fare = 10*d and Surge     *)
(* fare = 25*d, non-negative, in every state the program reaches: whether  *)
(* the strategy is called directly or by a booking, whatever was called    *)
(* before.                                                                 *)
C4_FareIsRateTimesDistance ==
    /\ (ret.op = "calculate_fare" /\ ret.args[2] >= 0) =>
          /\ ret.args[1] = "NormalPricing" => ret.result.val = 10 * ret.args[2]
          /\ ret.args[1] = "SurgePricing" => ret.result.val = 25 * ret.args[2]
          /\ ret.result.val >= 0
    /\ (IsBooking /\ ret.args[3] >= 0) =>
          \A i \in Positions("Fare") :
             /\ ret.receiver.pricing_strategy = Obj("NormalPricing")
                   => ret.trace[i].amount = Format2f(10 * ret.args[3])
             /\ ret.receiver.pricing_strategy = Obj("SurgePricing")
                   => ret.trace[i].amount = Format2f(25 * ret.args[3])
             /\ ~ret.trace[i].amount.neg

C4_Witness ==
    /\ ret.op = "calculate_fare"
    /\ ret.args = <<"SurgePricing", 15>>
    /\ ret.result.val = 375
    /\ Len(systems) > 0

(* C5: set_pricing and set_payment take effect at once and nothing else    *)
(* changes a policy, so each booking computes its fare with the pricing    *)
(* policy most recently set and pays by the payment method most recently   *)
(* set; after switching to Surge, distance 15 gives fare 375.              *)
C5_LatestPolicyUsed ==
    [][ /\ \A s \in 1..Len(systems) :
             /\ systems'[s].pricing_strategy # systems[s].pricing_strategy
                   => (ret'.op = "set_pricing" /\ ret'.sys = s)
             /\ systems'[s].payment_method # systems[s].payment_method
                   => (ret'.op = "set_payment" /\ ret'.sys = s)
        /\ ret'.op = "set_pricing"
              => systems'[ret'.sys].pricing_strategy = Obj(ret'.args[1])
        /\ ret'.op = "set_payment"
              => systems'[ret'.sys].payment_method = Obj(ret'.args[1])
        /\ (ret'.op = "book_ride" /\ ret'.result # None) =>
              LET self == systems[ret'.sys]
                  km == ret'.args[3]
              IN  /\ ret'.result.fare = calculate_fare(self.pricing_strategy, km)
                  /\ (self.pricing_strategy = Obj("SurgePricing") /\ km = 15)
                        => ret'.result.fare = 375
                  /\ \A i \in DOMAIN ret'.trace :
                        ret'.trace[i].tag = "calculate_fare"
                           => ret'.trace[i].class = self.pricing_strategy.class
                  /\ \A i \in DOMAIN ret'.trace :
                        ret'.trace[i].tag = "process_payment"
                           => ret'.trace[i].class = self.payment_method.class
      ]_vars

\* Scenario 2: a booking right after a setter replaced a policy, Surge, 15 km
C5_Witness ==
    /\ IsBooking
    /\ ret.switched
    /\ ret.receiver.pricing_strategy = Obj("SurgePricing")
    /\ ret.receiver.payment_method = Obj("CardPayment")
    /\ ret.args[3] = 15
    /\ ret.result # None
    /\ ret.result.fare = 375

(* C6: there is one configuration instance: every AppConfig() access       *)
(* (direct, by an orchestrator's constructor, by a payment method) returns *)
(* it, and in every reachable state its fields are app_name "MiniCab" and  *)
(* currency_symbol "₹".                                                    *)
C6_SingleConfig ==
    /\ Len(heap) <= 1
    /\ (AppConfig_instance = NoInstance) <=> (heap = <<>>)
    /\ \A i \in DOMAIN heap :
          heap[i] = [app_name |-> "MiniCab", currency_symbol |-> "₹"]
    /\ \A s \in 1..Len(systems) :
          /\ systems[s].config = AppConfig_instance
          /\ systems[s].config \in DOMAIN heap
    /\ ret.op = "AppConfig" =>
          (ret.result = Obj(AppConfig_instance) /\ ret.result.class \in DOMAIN heap)
    /\ \A i \in Positions("payment") :
          /\ ret.trace[i].config = AppConfig_instance
          /\ ret.trace[i].symbol = "₹"
    /\ \A i \in Positions("Fare") : ret.trace[i].symbol = "₹"

\* A payment method's access returns the instance an orchestrator's
\* constructor obtained
C6_Witness ==
    /\ IsBooking
    /\ Positions("payment") # {}
    /\ \A i \in Positions("payment") : ret.trace[i].config = systems[ret.sys].config
    /\ heap = <<[app_name |-> "MiniCab", currency_symbol |-> "₹"]>>

(* C7: book_ride, whatever its outcome, leaves every field of every        *)
(* orchestrator unchanged, and no call at all changes an orchestrator's    *)
(* user name, authenticated flag or configuration reference.               *)
C7_BookingPersistsNothing ==
    [][ /\ Len(systems') >= Len(systems)
        /\ \A s \in 1..Len(systems) :
              /\ systems'[s].user_name = systems[s].user_name
              /\ systems'[s].is_authenticated = systems[s].is_authenticated
              /\ systems'[s].config = systems[s].config
              /\ ret'.op = "book_ride" => systems'[s] = systems[s]
      ]_vars

\* A successful booking after which the orchestrator is as it was
C7_Witness ==
    /\ IsBooking
    /\ ret.result # None
    /\ systems[ret.sys] = ret.receiver
    /\ systems[ret.sys].payment_method = Obj("WalletPayment")

(* C8: every booking attempt follows Start -> AuthCheck -> {Rejected |      *)
(* LogStart -> PolicyCheck -> {Error | ComputeFare -> Pay} -> LogEnd} and  *)
(* returns a result after at most nine events: the authentication notices  *)
(* come first; "Booking started" is emitted only after authentication      *)
(* succeeds and before the policy check; the fare is computed before the   *)
(* payment is processed, each at most once; an attempt that emits          *)
(* "Booking started" emits exactly one closing log notice, as its last     *)
(* event, also when a policy is missing.                                   *)
C8_AttemptStateMachine ==
    IsBooking =>
          /\ ret.result.kind \in {"None", "dict"}
          /\ Len(ret.trace) >= 2
          /\ Len(ret.trace) <= 9
          /\ ret.trace[1] = PrintAuthUser(ret.receiver.user_name)
          /\ ret.trace[2] =
                (IF ret.receiver.is_authenticated THEN PrintAuthSuccess ELSE PrintAuthFailed)
          /\ Positions("[AUTH] User") = {1}
          /\ Positions("[AUTH] Success") \cup Positions("[AUTH] Failed") = {2}
          /\ Started <=> ret.receiver.is_authenticated
          /\ Positions("[LOG] Booking started") \subseteq {3}
          /\ \A i \in DOMAIN ret.trace :
                ret.trace[i].tag \in FareAndPaymentTags \cup {"[ERROR]"} => i > 3
          /\ Started =>
                (Positions("[ERROR]") = {}) # (Positions("calculate_fare") = {})
          /\ Cardinality(Positions("[ERROR]")) <= 1
          /\ Cardinality(Positions("calculate_fare")) <= 1
          /\ Cardinality(Positions("process_payment")) <= 1
          /\ \A i \in Positions("calculate_fare"), j \in Positions("process_payment") :
                i < j
          /\ Positions("process_payment") # {} => Positions("calculate_fare") # {}
          /\ Started => Positions("[LOG] Booking") = {Len(ret.trace)}
          /\ ~Started => Positions("[LOG] Booking") = {}

\* The attempt rejected for a missing policy closes its log
C8_Witness ==
    /\ IsBooking
    /\ Started
    /\ ~PoliciesSet(ret.receiver)
    /\ Positions("[ERROR]") = {4}
    /\ ret.trace[Len(ret.trace)] = PrintLogEnd("Failed")
    /\ Len(ret.trace) = 5

(* C9: the closing log notice says "Success" exactly when book_ride        *)
(* returns a non-null value and "Failed" exactly when it returns None,     *)
(* also for a booking of distance 0 (fare 0); and the value returned       *)
(* through the logging wrapper is the undecorated body's result.           *)
C9_LogStatusMatchesResult ==
    (IsBooking /\ Started) =>
        LET last == ret.trace[Len(ret.trace)]
        IN  /\ last.tag = "[LOG] Booking"
            /\ last.status \in {"Success", "Failed"}
            /\ last.status = "Success" <=> ret.result # None
            /\ last.status = "Failed" <=> ret.result = None
            /\ ret.result = book_ride_body(ret.receiver, ret.args[1], ret.args[2],
                                           ret.args[3],
                                           Globals(AppConfig_instance, heap)).result

\* A booking of distance 0 succeeds with fare 0 and is logged as a success
C9_Witness ==
    /\ IsBooking
    /\ ret.args[3] = 0
    /\ ret.result # None
    /\ ret.result.fare = 0
    /\ ret.trace[Len(ret.trace)] = PrintLogEnd("Success")

(* C10: process_payment returns True for UPI, Card and Wallet and every    *)
(* amount, emitting exactly one payment notice; so no booking attempt      *)
(* processes a payment and then returns None.                              *)
C10_PaymentNeverDeclines ==
    /\ ret.op = "process_payment" =>
          /\ ret.result = Bool(TRUE)
          /\ Cardinality(Positions("payment")) = 1
    /\ (IsBooking /\ Positions("process_payment") # {}) =>
          /\ ret.result # None
          /\ Cardinality(Positions("payment")) = 1
          /\ \A i \in Positions("payment"), j \in Positions("process_payment") :
                ret.trace[i].amount = Format2f(ret.trace[j].arg)

\* A booking paid by Wallet with a negative amount still succeeds
C10_Witness ==
    /\ IsBooking
    /\ ret.receiver.payment_method = Obj("WalletPayment")
    /\ Positions("process_payment") # {}
    /\ ret.args[3] < 0
    /\ ret.result # None

====
